---- MODULE Spec2Model ----
(***************************************************************************)
(* Model of src/src/index.ts: the health-state engine of database-service. *)
(*                                                                         *)
(* The program runs on a single-threaded event loop: every stretch of code *)
(* between two awaits is one atomic step.  Each async function is cut at   *)
(* its awaits; a "process" below is one activation of main(), of a         *)
(* pingDatabase timer callback or of a pingDependencies round.  setInterval *)
(* fires whether or not the previous callback has finished, so several     *)
(* activations of the same callback can be suspended at once.              *)
(*                                                                         *)
(* Collaborators (Secrets Manager, pg.Pool, fetch) are modelled by the     *)
(* outcome of each awaited call: before `recovered` a call may succeed or  *)
(* fail; after it the secret store and the database are available, so a    *)
(* call fails only when it involves a pool on which end() was called.      *)
(* connect() called on a pool after end() always rejects; a connect() that *)
(* was pending when end() was called may still hand out its client or      *)
(* reject.                                                                 *)
(***************************************************************************)
EXTENDS Integers, FiniteSets, Sequences, TLC

\* ------------------------------------------------------------------ bounds
MaxCycles == 2      \* pingDatabase activations that can be in flight at once
MaxPools  == 2      \* pg.Pool objects constructed in one run
MaxRounds == 1      \* timer pingDependencies rounds in flight at once
MaxDeps   == 2      \* size of the largest DEPENDENCIES list explored

NULL == 0

Cycles  == 1..MaxCycles          \* timer activations of pingDatabase
Procs   == 0..MaxCycles          \* 0 is main()
PoolIds == 1..MaxPools
Rounds  == 0..MaxRounds          \* 0 is the startup round awaited by main()
Urls    == 1..MaxDeps

VARIABLES
    dbPool,              \* let dbPool: pg.Pool | null            (line 20)
    isHealthy,           \* let isHealthy                         (line 21)
    dbConnectionString,  \* let dbConnectionString                (line 22)
    dependencyHealth,    \* const dependencyHealth: Map           (line 23)
    DEPENDENCIES,        \* const DEPENDENCIES                    (line 11)
    pool,                \* every pg.Pool object: "none" | "live" | "ended"
    checkedOut,          \* clients acquired from a pool and not released
    pc,                  \* where each activation is suspended
    cpool,               \* the pool object an activation called connect() on
    startRef,            \* whether `if (!dbPool)` of the activation found a pool
    did,                 \* what the activation dispatched: "ensure", "verify"
    last,                \* how the call that returned last ended: "ok" | "failed"
    timersStarted,       \* startPingTimers() has run
    depTimer,            \* the dependency setInterval was registered
    recovered,           \* the collaborators are available from now on
    firstAfter,          \* the first pingDatabase activation after recovery
    probe,               \* per round and URL: the state of its pingDependency
    rpc,                 \* where each pingDependencies round is
    resp                 \* the last response of GET /health

storeVars == <<dbPool, isHealthy, dbConnectionString, pool, checkedOut>>
procVars  == <<pc, cpool, startRef, did, last>>
envVars   == <<recovered, firstAfter>>
depVars   == <<dependencyHealth, probe, rpc>>
vars == <<dbPool, isHealthy, dbConnectionString, dependencyHealth, DEPENDENCIES,
          pool, checkedOut, pc, cpool, startRef, did, last, timersStarted,
          depTimer, recovered, firstAfter, probe, rpc, resp>>

NoResponse == [code |-> 0, status |-> "none", database |-> "none",
               dependencies |-> <<>>]

Init ==
    /\ dbPool = NULL
    /\ isHealthy = FALSE
    /\ dbConnectionString = "null"
    /\ dependencyHealth = <<>>
    /\ DEPENDENCIES \in SUBSET Urls
    /\ pool = [p \in PoolIds |-> "none"]
    /\ checkedOut = [p \in PoolIds |-> 0]
    /\ pc = [c \in Procs |-> IF c = 0 THEN "m_init" ELSE "idle"]
    /\ cpool = [c \in Procs |-> NULL]
    /\ startRef = [c \in Procs |-> FALSE]
    /\ did = [c \in Procs |-> {}]
    /\ last = "none"
    /\ timersStarted = FALSE
    /\ depTimer = FALSE
    /\ recovered = FALSE
    /\ firstAfter = 0
    /\ probe = [r \in Rounds |-> [u \in Urls |-> "idle"]]
    /\ rpc = [r \in Rounds |-> "idle"]
    /\ resp = NoResponse

\* ---------------------------------------------------------------- pg.Pool
LivePools == {p \in PoolIds : pool[p] = "live"}
NewPoolId == CHOOSE p \in PoolIds : pool[p] = "none" /\ \A q \in PoolIds : q < p => pool[q] # "none"
CanConstruct == \E p \in PoolIds : pool[p] = "none"

\* pool.connect() called on a pool after end() rejects ("v_reject")
ConnectCanSucceed(c) == pc[c] \in {"i_connect", "v_connect"}
\* before recovery any awaited call may fail; after it only a call on an ended pool
ConnectCanFail(p) == ~recovered \/ pool[p] # "live"
CallCanFail == ~recovered

\* -------------------------------------------------- initializeDatabase
\* an activation's async function returns: r is how its call ended
Return(c, r) ==
    /\ last' = r
    /\ pc' = [pc EXCEPT ![c] = IF c = 0 THEN "m_deps" ELSE "idle"]
    /\ did' = [did EXCEPT ![c] = {}]
    /\ cpool' = [cpool EXCEPT ![c] = NULL]
    /\ startRef' = [startRef EXCEPT ![c] = FALSE]

\* pingDatabase without the `return` of line 100: it goes on to the try block
PingAfterInitFallThrough(c, r) ==
    IF dbPool # NULL
      THEN /\ pc' = [pc EXCEPT ![c] = IF pool[dbPool] = "live" THEN "v_connect"
                                         ELSE "v_reject"]
           /\ did' = [did EXCEPT ![c] = @ \cup {"verify"}]
           /\ cpool' = [cpool EXCEPT ![c] = dbPool]
           /\ UNCHANGED <<startRef, last>>
      ELSE Return(c, r)

\* pingDatabase after `await initializeDatabase()`: `return` (line 100)
PingAfterInit(c, r) == Return(c, r)

\* initializeDatabase returns to its caller: main() or pingDatabase
InitReturn(c, r) == IF c = 0 THEN Return(c, r) ELSE PingAfterInit(c, r)

\* the call: runs to `await fetchDatabaseCredentials()`; d is what the caller
\* has dispatched so far in this activation
CallInitialize(c, d) ==
    /\ pc' = [pc EXCEPT ![c] = "i_fetch"]
    /\ did' = [did EXCEPT ![c] = d \cup {"ensure"}]
    /\ cpool' = [cpool EXCEPT ![c] = NULL]

\* fetchDatabaseCredentials rejects: catch, isHealthy = false
FetchFail(c) ==
    /\ pc[c] = "i_fetch"
    /\ CallCanFail
    /\ isHealthy' = FALSE
    /\ InitReturn(c, "failed")
    /\ UNCHANGED <<dbPool, dbConnectionString, pool, checkedOut>>
    /\ UNCHANGED <<envVars, depVars, DEPENDENCIES, timersStarted, depTimer, resp>>

\* the secret arrives, new Pool(...) throws: catch, isHealthy = false
FetchOkCtorFail(c) ==
    /\ pc[c] = "i_fetch"
    /\ CallCanFail
    /\ dbConnectionString' = "conn"
    /\ isHealthy' = FALSE
    /\ InitReturn(c, "failed")
    /\ UNCHANGED <<dbPool, pool, checkedOut>>
    /\ UNCHANGED <<envVars, depVars, DEPENDENCIES, timersStarted, depTimer, resp>>

\* the secret arrives, dbPool = new Pool(...), dbPool.connect() is awaited
FetchOkCtorOk(c) ==
    /\ pc[c] = "i_fetch"
    /\ CanConstruct
    /\ dbConnectionString' = "conn"
    /\ pool' = [pool EXCEPT ![NewPoolId] = "live"]
    /\ dbPool' = NewPoolId
    /\ cpool' = [cpool EXCEPT ![c] = NewPoolId]
    /\ pc' = [pc EXCEPT ![c] = "i_connect"]
    /\ UNCHANGED <<isHealthy, checkedOut, startRef, did, last>>
    /\ UNCHANGED <<envVars, depVars, DEPENDENCIES, timersStarted, depTimer, resp>>

\* the test connection is acquired and released: isHealthy = true
InitConnectOk(c) ==
    /\ pc[c] = "i_connect"
    /\ ConnectCanSucceed(c)
    /\ isHealthy' = TRUE
    /\ InitReturn(c, "ok")
    /\ UNCHANGED <<dbPool, dbConnectionString, pool, checkedOut>>
    /\ UNCHANGED <<envVars, depVars, DEPENDENCIES, timersStarted, depTimer, resp>>

\* the test connection fails: catch, isHealthy = false; dbPool keeps the new pool
InitConnectFail(c) ==
    /\ pc[c] = "i_connect"
    /\ ConnectCanFail(cpool[c])
    /\ isHealthy' = FALSE
    /\ InitReturn(c, "failed")
    /\ UNCHANGED <<dbPool, dbConnectionString, pool, checkedOut>>
    /\ UNCHANGED <<envVars, depVars, DEPENDENCIES, timersStarted, depTimer, resp>>

\* --------------------------------------------------------- pingDatabase
InVerify(c) == pc[c] \in {"v_connect", "v_reject", "v_query"}
InInit(c) == pc[c] \in {"i_fetch", "i_connect"}

\* an activation record is free when no callback is suspended in it; a new
\* callback takes the first free one
FreeCycle(c) ==
    /\ pc[c] = "idle"
    /\ \A d \in Cycles : d < c => pc[d] # "idle"

\* a database timer registered when the module is loaded
DbTimerRegisteredAtLoad == TRUE

\* setInterval of the database ping exists once startPingTimers has run
DbTimerRegistered == timersStarted

\* the timer callback: `if (!dbPool)` chooses between the two calls
PingTick(c) ==
    /\ DbTimerRegistered
    /\ FreeCycle(c)
    /\ startRef' = [startRef EXCEPT ![c] = (dbPool # NULL)]
    /\ firstAfter' = IF recovered /\ firstAfter = 0 THEN c
                     ELSE IF firstAfter = c THEN -1 ELSE firstAfter
    /\ IF dbPool = NULL
         THEN CallInitialize(c, {})
         ELSE /\ pc' = [pc EXCEPT ![c] = IF pool[dbPool] = "live" THEN "v_connect"
                                            ELSE "v_reject"]
              /\ did' = [did EXCEPT ![c] = {"verify"}]
              /\ cpool' = [cpool EXCEPT ![c] = dbPool]
    /\ UNCHANGED <<storeVars, last, recovered, depVars, DEPENDENCIES, timersStarted,
                   depTimer, resp>>

\* the catch block of pingDatabase (lines 112-124), up to `await dbPool.end()`
Catch(c) ==
    /\ isHealthy' = FALSE
    /\ IF dbPool # NULL
         THEN /\ pool' = [pool EXCEPT ![dbPool] = "ended"]
              /\ pc' = [pc EXCEPT ![c] = "v_end"]
              /\ UNCHANGED <<cpool, startRef, did, last>>
         ELSE /\ pool' = pool
              /\ Return(c, "failed")

VConnectOk(c) ==
    /\ pc[c] = "v_connect"
    /\ ConnectCanSucceed(c)
    /\ checkedOut' = [checkedOut EXCEPT ![cpool[c]] = @ + 1]
    /\ pc' = [pc EXCEPT ![c] = "v_query"]
    /\ UNCHANGED <<dbPool, isHealthy, dbConnectionString, pool, cpool, startRef, did, last>>
    /\ UNCHANGED <<envVars, depVars, DEPENDENCIES, timersStarted, depTimer, resp>>

VConnectFail(c) ==
    /\ pc[c] \in {"v_connect", "v_reject"}
    /\ ConnectCanFail(cpool[c])
    /\ Catch(c)
    /\ UNCHANGED <<dbPool, dbConnectionString, checkedOut>>
    /\ UNCHANGED <<envVars, depVars, DEPENDENCIES, timersStarted, depTimer, resp>>

\* SELECT 1 answers: client.release(), isHealthy = true
VQueryOk(c) ==
    /\ pc[c] = "v_query"
    /\ checkedOut' = [checkedOut EXCEPT ![cpool[c]] = @ - 1]
    /\ isHealthy' = TRUE
    /\ Return(c, "ok")
    /\ UNCHANGED <<dbPool, dbConnectionString, pool>>
    /\ UNCHANGED <<envVars, depVars, DEPENDENCIES, timersStarted, depTimer, resp>>

\* SELECT 1 rejects: line 107 is skipped, the client stays checked out
VQueryFail(c) ==
    /\ pc[c] = "v_query"
    /\ CallCanFail
    /\ Catch(c)
    /\ UNCHANGED <<dbPool, dbConnectionString, checkedOut>>
    /\ UNCHANGED <<envVars, depVars, DEPENDENCIES, timersStarted, depTimer, resp>>

\* `await dbPool.end()` without the .catch: a rejection leaves the catch block
EndSettledNoCatch(c, rejected) ==
    IF rejected THEN dbPool' = dbPool /\ Return(c, "threw")
                ELSE dbPool' = NULL /\ Return(c, "failed")

\* after `await dbPool.end().catch(() => {})`: resolved or rejected, the
\* catch block goes on with dbPool = null and the function returns
EndSettled(c, rejected) ==
    /\ dbPool' = NULL
    /\ Return(c, "failed")

\* dbPool.end() settles: it resolves, or rejects (a second end() of a pool, a
\* teardown error)
VEndSettle(c) ==
    /\ pc[c] = "v_end"
    /\ \E rejected \in BOOLEAN : EndSettled(c, rejected)
    /\ UNCHANGED <<isHealthy, dbConnectionString, pool, checkedOut>>
    /\ UNCHANGED <<envVars, depVars, DEPENDENCIES, timersStarted, depTimer, resp>>

\* the backing store and the secret store come back and stay available
Recover ==
    /\ ~recovered
    /\ recovered' = TRUE
    /\ UNCHANGED <<storeVars, procVars, firstAfter, depVars, DEPENDENCIES,
                   timersStarted, depTimer, resp>>

\* ------------------------------------------------------- dependencies
Outcomes == {"ok", "notok", "error", "timeout"}

\* pingDependency: response.ok when a response arrives, false in the catch
pingDependency(outcome) == outcome = "ok"

\* a set() that writes the value to every key
MapSetAll(h, dep, healthy) == [x \in DOMAIN h \cup {dep} |-> healthy]

\* a write that replaces the map by the one entry
MapSetOnly(h, dep, healthy) == [x \in {dep} |-> healthy]

\* dependencyHealth.set(dep, healthy)
MapSet(h, dep, healthy) ==
    [x \in DOMAIN h \cup {dep} |-> IF x = dep THEN healthy ELSE h[x]]

\* a loop that awaits each probe before it starts the next one
DispatchSequential(deps) ==
    [u \in Urls |-> IF u \in deps /\ (\A v \in deps : u <= v) THEN "pending" ELSE "idle"]

\* DEPENDENCIES.map(async dep => ...): every callback runs to its fetch()
Dispatch(deps) == [u \in Urls |-> IF u \in deps THEN "pending" ELSE "idle"]

\* a wait that ends with the first probe that settles (Promise.race)
SettledAny(r) == \E u \in DEPENDENCIES : probe[r][u] = "settled"

\* Promise.allSettled: every promise of the round has settled
Settled(r) == \A u \in DEPENDENCIES : probe[r][u] = "settled"

\* pingDependencies up to `await Promise.allSettled(...)`
CallPingDependencies(r) ==
    IF DEPENDENCIES = {}
      THEN /\ rpc' = rpc
           /\ probe' = probe
      ELSE /\ rpc' = [rpc EXCEPT ![r] = "waiting"]
           /\ probe' = [probe EXCEPT ![r] = Dispatch(DEPENDENCIES)]

\* the dependency timer callback
DepTick(r) ==
    /\ depTimer
    /\ r # 0
    /\ rpc[r] = "idle"
    /\ \A q \in Rounds : (q # 0 /\ q < r) => rpc[q] # "idle"
    /\ CallPingDependencies(r)
    /\ UNCHANGED <<storeVars, procVars, envVars, dependencyHealth, DEPENDENCIES,
                   timersStarted, depTimer, resp>>

\* one fetch settles: pingDependency returns, the map callback stores the value
ProbeSettle(r, u, outcome) ==
    /\ rpc[r] = "waiting"
    /\ probe[r][u] = "pending"
    /\ dependencyHealth' = MapSet(dependencyHealth, u, pingDependency(outcome))
    /\ probe' = [probe EXCEPT ![r][u] = "settled"]
    /\ UNCHANGED <<storeVars, procVars, envVars, rpc, DEPENDENCIES,
                   timersStarted, depTimer, resp>>

\* Promise.allSettled resolves: the count is logged, the round returns
RoundFinish(r) ==
    /\ rpc[r] = "waiting"
    /\ Settled(r)
    /\ rpc' = [rpc EXCEPT ![r] = "idle"]
    /\ probe' = [probe EXCEPT ![r] = [u \in Urls |-> "idle"]]
    /\ IF r = 0
         THEN pc' = [pc EXCEPT ![0] = "m_timers"]
         ELSE pc' = pc
    /\ UNCHANGED <<storeVars, cpool, startRef, did, last, envVars, dependencyHealth,
                   DEPENDENCIES, timersStarted, depTimer, resp>>

\* ---------------------------------------------------------------- main
\* `await initializeDatabase()` (line 255)
MainInitialize ==
    /\ pc[0] = "m_init"
    /\ CallInitialize(0, {})
    /\ UNCHANGED <<storeVars, startRef, last, envVars, depVars, DEPENDENCIES,
                   timersStarted, depTimer, resp>>

\* `if (DEPENDENCIES.length > 0) await pingDependencies()` (lines 258-260)
MainPingDependencies ==
    /\ pc[0] = "m_deps"
    /\ DEPENDENCIES # {}
    /\ CallPingDependencies(0)
    /\ pc' = [pc EXCEPT ![0] = "m_wait"]
    /\ UNCHANGED <<storeVars, cpool, startRef, did, last, envVars, dependencyHealth,
                   DEPENDENCIES, timersStarted, depTimer, resp>>

MainSkipDependencies ==
    /\ pc[0] = "m_deps"
    /\ DEPENDENCIES = {}
    /\ pc' = [pc EXCEPT ![0] = "m_timers"]
    /\ UNCHANGED <<storeVars, cpool, startRef, did, last, envVars, depVars,
                   DEPENDENCIES, timersStarted, depTimer, resp>>

\* a dependency timer registered whatever the list holds
RegisterDepTimerAlways == TRUE

\* `if (DEPENDENCIES.length > 0)` of startPingTimers (line 187)
RegisterDepTimer == DEPENDENCIES # {}

\* startPingTimers (lines 180-194)
StartPingTimers ==
    /\ pc[0] = "m_timers"
    /\ timersStarted' = TRUE
    /\ depTimer' = RegisterDepTimer
    /\ pc' = [pc EXCEPT ![0] = "m_done"]
    /\ UNCHANGED <<storeVars, cpool, startRef, did, last, envVars, depVars,
                   DEPENDENCIES, resp>>

\* --------------------------------------------------------- GET /health
Status(h) == IF h THEN "healthy" ELSE "unhealthy"
\* a database field derived from the handle reference instead of the status
DatabaseFromPool(h) == IF dbPool # NULL THEN "connected" ELSE "disconnected"
Database(h) == IF h THEN "connected" ELSE "disconnected"
StatusCode(h) == IF h THEN 200 ELSE 503

\* a rendering that lists the healthy dependencies only
fromEntriesHealthyOnly(h) == [k \in {x \in DOMAIN h : h[x]} |-> TRUE]

\* Object.fromEntries(map): a new object with one property per entry
fromEntries(h) == [k \in DOMAIN h |-> h[k]]

HealthResponse ==
    [code |-> StatusCode(isHealthy), status |-> Status(isHealthy),
     database |-> Database(isHealthy), dependencies |-> fromEntries(dependencyHealth)]

\* a handler that awaits the poll before it answers
HealthAwaitsPoll ==
    /\ \A c \in Cycles : pc[c] = "idle"
    /\ \A r \in Rounds : rpc[r] = "idle"

\* the handler is registered before initializeDatabase is called (line 223)
\* and has no await: a request is answered in whatever state it arrives
HealthReady == TRUE

Health ==
    /\ HealthReady
    /\ resp' = HealthResponse
    /\ UNCHANGED <<storeVars, procVars, envVars, depVars, DEPENDENCIES,
                   timersStarted, depTimer>>

\* ------------------------------------------------------ specifications
InitStep ==
    \/ \E c \in Procs : FetchFail(c)
    \/ \E c \in Procs : FetchOkCtorFail(c)
    \/ \E c \in Procs : FetchOkCtorOk(c)
    \/ \E c \in Procs : InitConnectOk(c)
    \/ \E c \in Procs : InitConnectFail(c)

PingStep ==
    \/ \E c \in Cycles : PingTick(c)
    \/ \E c \in Cycles : VConnectOk(c)
    \/ \E c \in Cycles : VConnectFail(c)
    \/ \E c \in Cycles : VQueryOk(c)
    \/ \E c \in Cycles : VQueryFail(c)
    \/ \E c \in Cycles : VEndSettle(c)

DepStep ==
    \/ \E r \in Rounds : DepTick(r)
    \/ \E r \in Rounds, u \in Urls, o \in Outcomes : ProbeSettle(r, u, o)
    \/ \E r \in Rounds : RoundFinish(r)

\* the whole program
Next ==
    \/ InitStep \/ PingStep \/ Recover \/ DepStep
    \/ MainInitialize \/ MainPingDependencies \/ MainSkipDependencies
    \/ StartPingTimers \/ Health

Spec == Init /\ [][Next]_vars

\* the store side: a deployment that declares no dependency, so that main()
\* skips the startup round and registers the database timer alone
InitStore == Init /\ DEPENDENCIES = {}

NextStore ==
    \/ InitStep \/ PingStep
    \/ MainInitialize \/ MainSkipDependencies \/ StartPingTimers \/ Health

SpecStore == InitStore /\ [][NextStore]_vars

\* the store side with an outage that ends: every call may fail until Recover
NextRecover == NextStore \/ Recover

SpecRecover == InitStore /\ [][NextRecover]_vars

\* the dependency side: startup and the dependency timer, for every declared
\* list; the database timer does not fire
NextDeps ==
    \/ InitStep \/ DepStep
    \/ MainInitialize \/ MainPingDependencies \/ MainSkipDependencies
    \/ StartPingTimers \/ Health

SpecDeps == Init /\ [][NextDeps]_vars

\* both timers together, for every declared list: the database timer fires
\* when its previous callback has returned, so that store cycles come one at
\* a time while dependency rounds and reads interleave with them freely
PingStepSerial ==
    \/ \E c \in Cycles : (\A d \in Cycles : pc[d] = "idle") /\ PingTick(c)
    \/ \E c \in Cycles : VConnectOk(c)
    \/ \E c \in Cycles : VConnectFail(c)
    \/ \E c \in Cycles : VQueryOk(c)
    \/ \E c \in Cycles : VQueryFail(c)
    \/ \E c \in Cycles : VEndSettle(c)

NextBoth ==
    \/ InitStep \/ PingStepSerial \/ DepStep
    \/ MainInitialize \/ MainPingDependencies \/ MainSkipDependencies
    \/ StartPingTimers \/ Health

SpecBoth == Init /\ [][NextBoth]_vars

\* ---------------------------------------------------------------- claims
InFlight(c) == pc[c] # "idle"

\* C1 (as stated): at most one pool that was constructed and not ended exists
\* in any reachable state, overlapping timer activations included.
ExclusiveHandle == Cardinality(LivePools) <= 1

\* C5 (as stated): at most one initializeDatabase call is suspended at a time.
AtMostOneReinit == Cardinality({c \in Procs : InInit(c)}) <= 1

\* C3 (as stated): when initializeDatabase returns after a failure, isHealthy
\* is false and dbPool is null.
EnsureFailureLeavesNoHandle ==
    [][\A c \in Procs :
          (InInit(c) /\ pc'[c] \in {"idle", "m_deps"} /\ last' = "failed")
              => (isHealthy' = FALSE /\ dbPool' = NULL)]_vars

\* C4 (as stated): when a pingDatabase activation that verified a pool returns
\* after a failure, isHealthy is false, the pool it probed is ended and dbPool
\* is null.
VerifyFailureTearsDown ==
    [][\A c \in Cycles :
          (pc[c] \in {"v_connect", "v_reject", "v_query", "v_end"} /\ pc'[c] = "idle"
              /\ last' = "failed")
              => (isHealthy' = FALSE /\ dbPool' = NULL /\ pool'[cpool[c]] = "ended")]_vars

\* C6 (as stated): no step ends a pool while another activation, which takes
\* no part in the step, has a connect or a query in flight on that pool.
NoTeardownUnderVerify ==
    [][\A p \in PoolIds :
          (pool[p] = "live" /\ pool'[p] = "ended")
              => ~\E c \in Cycles : InVerify(c) /\ cpool[c] = p /\ pc'[c] = pc[c]]_vars

\* C2 (as stated): the first pingDatabase activation that starts after the
\* recovery returns with isHealthy true.
SelfHealing ==
    [][\A c \in Cycles :
          (firstAfter = c /\ InFlight(c) /\ pc'[c] = "idle") => isHealthy' = TRUE]_vars

\* C7: every pingDatabase activation in flight has dispatched exactly one of
\* the two calls, the one chosen by the handle reference it read at its start:
\* initializeDatabase alone when dbPool was null, the verification alone when
\* it was not; the connect/query/end of a verification is never reached by an
\* activation that started without a handle.
SingleDispatch ==
    \A c \in Cycles :
        InFlight(c) =>
            /\ did[c] = (IF startRef[c] THEN {"verify"} ELSE {"ensure"})
            /\ (InInit(c) => ~startRef[c])
            /\ (pc[c] \in {"v_connect", "v_reject", "v_query", "v_end"} => startRef[c])

\* C7 witness: two overlapping activations, one inside initializeDatabase and
\* one inside the verification
SingleDispatchWitness ==
    \E c, d \in Cycles :
        /\ pc[c] = "i_connect" /\ did[c] = {"ensure"}
        /\ pc[d] = "v_query" /\ did[d] = {"verify"}

\* C8: every response of GET /health has status "healthy" exactly when
\* isHealthy was true at the read, database "connected" exactly when the status
\* is "healthy", and code 200 exactly when the status is "healthy", 503
\* otherwise.
HealthConsistent ==
    /\ [](resp # NoResponse =>
            /\ (resp.status = "healthy") <=> (resp.database = "connected")
            /\ (resp.code = 200) <=> (resp.status = "healthy")
            /\ resp.code \in {200, 503}
            /\ resp.status \in {"healthy", "unhealthy"}
            /\ resp.database \in {"connected", "disconnected"})
    /\ [][Health => ((resp'.status = "healthy") <=> isHealthy)]_vars

\* C8 witness: an unhealthy response was served while a pool is installed, and
\* a healthy one can follow
HealthConsistentWitness ==
    /\ resp.status = "unhealthy" /\ resp.code = 503
    /\ dbPool # NULL /\ isHealthy

\* C9: no step of pingDependencies or pingDependency changes isHealthy, dbPool
\* or any pool, and a probe that settles for one URL leaves the entry of every
\* other URL of dependencyHealth as it was (absent or the same value).
SameEntry(x) ==
    /\ (x \in DOMAIN dependencyHealth) <=> (x \in DOMAIN dependencyHealth')
    /\ (x \in DOMAIN dependencyHealth) => dependencyHealth'[x] = dependencyHealth[x]

DependenciesInformational ==
    [][(DepStep \/ MainPingDependencies) =>
          /\ UNCHANGED <<isHealthy, dbPool, pool, checkedOut>>
          /\ \A r \in Rounds, u \in Urls :
                (probe[r][u] = "pending" /\ probe'[r][u] = "settled")
                    => \A x \in Urls \ {u} : SameEntry(x)]_vars

\* C9 witness: two URLs recorded with different values while the store is
\* connected
DependenciesInformationalWitness ==
    /\ isHealthy
    /\ \E u, v \in DOMAIN dependencyHealth :
          dependencyHealth[u] = TRUE /\ dependencyHealth[v] = FALSE

\* C10: while a round waits, every declared URL's probe has been dispatched
\* (none waits for another one), each pending probe can settle whatever the
\* others do, and the step that settles the probe of a URL writes that URL's
\* entry with that probe's value.
DependencyIsolation ==
    /\ [](\A r \in Rounds :
            rpc[r] = "waiting" =>
                \A u \in DEPENDENCIES :
                    /\ probe[r][u] \in {"pending", "settled"}
                    /\ probe[r][u] = "pending"
                          => ENABLED (\E o \in Outcomes : ProbeSettle(r, u, o)))
    /\ [][\A r \in Rounds, u \in Urls, o \in Outcomes :
            ProbeSettle(r, u, o) =>
                /\ u \in DOMAIN dependencyHealth'
                /\ dependencyHealth'[u] = (o = "ok")]_vars

\* C10 witness: in one round a URL is recorded as healthy while the probe of
\* another URL of the round is still pending
DependencyIsolationWitness ==
    \E r \in Rounds, u, v \in DEPENDENCIES :
        /\ rpc[r] = "waiting"
        /\ probe[r][u] = "settled" /\ u \in DOMAIN dependencyHealth
        /\ dependencyHealth[u] = TRUE
        /\ probe[r][v] = "pending" /\ v \notin DOMAIN dependencyHealth

\* C11: a pingDependencies round returns only when the probe of every
\* declared URL has settled, whatever the outcomes, and by then every declared
\* URL has an entry; in a round the entry of a URL is written by exactly the
\* step that settles its probe, once, with true when the response was ok and
\* false for a non-success status, a transport error or a timeout; every
\* outcome ends in a settled probe, none in an exception.
RoundWritesEachOnce ==
    /\ [](\A r \in Rounds, u \in DEPENDENCIES, o \in Outcomes :
            (rpc[r] = "waiting" /\ probe[r][u] = "pending") => ENABLED ProbeSettle(r, u, o))
    /\ [][/\ \A r \in Rounds :
                RoundFinish(r) =>
                    /\ \A u \in DEPENDENCIES : probe[r][u] = "settled"
                    /\ DEPENDENCIES \subseteq DOMAIN dependencyHealth
          /\ \A r \in Rounds, u \in Urls, o \in Outcomes :
                ProbeSettle(r, u, o) =>
                    /\ dependencyHealth'[u] = (o = "ok")
                    /\ \A q \in Rounds, v \in Urls :
                          (probe'[q][v] # probe[q][v]) => (q = r /\ v = u)
          /\ \A u \in Urls :
                ~SameEntry(u) =>
                    \E r \in Rounds : probe[r][u] = "pending" /\ probe'[r][u] = "settled"]_vars

\* C11 witness: the startup round of two URLs has returned, one recorded true
\* and one false
RoundWritesEachOnceWitness ==
    /\ pc[0] = "m_timers"
    /\ Cardinality(DEPENDENCIES) = 2
    /\ DOMAIN dependencyHealth = DEPENDENCIES
    /\ \E u, v \in DEPENDENCIES : dependencyHealth[u] /\ ~dependencyHealth[v]

\* C12: with an empty DEPENDENCIES no dependency timer is registered, no probe
\* is ever started, dependencyHealth stays empty, a pingDependencies call
\* changes nothing, and every response has a dependencies field that is the
\* empty mapping.
EmptyCase ==
    /\ [](DEPENDENCIES = {} =>
            /\ ~depTimer
            /\ dependencyHealth = <<>>
            /\ \A r \in Rounds : rpc[r] = "idle" /\ \A u \in Urls : probe[r][u] = "idle"
            /\ "dependencies" \in DOMAIN resp
            /\ resp.dependencies = <<>>)
    /\ [][\A r \in Rounds :
            (DEPENDENCIES = {} /\ CallPingDependencies(r)) => UNCHANGED depVars]_vars

\* C12 witness: no dependency declared, the timers are started and a response
\* was served
EmptyCaseWitness ==
    /\ DEPENDENCIES = {}
    /\ timersStarted
    /\ resp # NoResponse /\ resp.dependencies = <<>>

\* C13: the keys of dependencyHealth are declared URLs, no step removes a key,
\* and once the startup round has returned (so every declared URL was probed)
\* the keys are exactly the declared URLs.
KeySet ==
    /\ [](/\ DOMAIN dependencyHealth \subseteq DEPENDENCIES
          /\ pc[0] \in {"m_timers", "m_done"} => DOMAIN dependencyHealth = DEPENDENCIES
          /\ (\A u \in DEPENDENCIES : \E r \in Rounds : probe[r][u] = "settled")
                => DOMAIN dependencyHealth = DEPENDENCIES)
    /\ [][DOMAIN dependencyHealth \subseteq DOMAIN dependencyHealth']_vars

\* C13 witness: a timer round rewrites a key while the key set is complete
KeySetWitness ==
    /\ timersStarted
    /\ Cardinality(DEPENDENCIES) = 2
    /\ DOMAIN dependencyHealth = DEPENDENCIES
    /\ \E r \in Rounds, u \in DEPENDENCIES : r # 0 /\ probe[r][u] = "settled"

\* C18: the dependencies of a response are the entries of dependencyHealth at
\* the read, key for key and value for value, and a response once served is
\* changed by no later step (only by the next read).
SnapshotIsCopy ==
    [][/\ Health =>
            /\ DOMAIN resp'.dependencies = DOMAIN dependencyHealth
            /\ \A k \in DOMAIN dependencyHealth :
                  resp'.dependencies[k] = dependencyHealth[k]
            /\ (resp'.status = "healthy") <=> isHealthy
       /\ (resp' # resp) => Health]_vars

\* C18 witness: a served {1: true, 2: false} that a later write to the map
\* has not changed
SnapshotIsCopyWitness ==
    /\ resp # NoResponse
    /\ DOMAIN resp.dependencies = {1, 2}
    /\ resp.dependencies[1] = TRUE /\ resp.dependencies[2] = FALSE
    /\ dependencyHealth[2] = TRUE

\* C17: every client taken from a pool is given back before the activation
\* that took it ends: the clients checked out of a pool are exactly those of
\* the activations now between a successful connect and the end of their
\* query, so a pool that is torn down has none checked out.
NoLeakedConnection ==
    \A p \in PoolIds :
        checkedOut[p] = Cardinality({c \in Cycles : pc[c] = "v_query" /\ cpool[c] = p})

\* C19: isHealthy is true only while dbPool holds a pool.
ConnectedImpliesHandle == isHealthy => dbPool # NULL

\* C20: the pool that a failing verification ends is the pool it probed, and
\* a failing verification whose pool is no longer the installed one leaves
\* dbPool and isHealthy alone.
TearsDownOnlyProbed ==
    [][\A c \in Cycles :
          (InVerify(c) /\ pc'[c] \notin {pc[c], "v_query"}) =>
              /\ \A p \in PoolIds :
                    (pool[p] = "live" /\ pool'[p] = "ended") => p = cpool[c]
              /\ (dbPool # cpool[c]) => (pool' = pool /\ isHealthy' = isHealthy)]_vars

\* the place of a state of main() in its straight-line order
MainRank(l) ==
    CHOOSE i \in 1..7 :
        <<"m_init", "i_fetch", "i_connect", "m_deps", "m_wait", "m_timers", "m_done">>[i] = l

\* C14: a timer callback of either kind runs only after main() has passed
\* its startup calls: initializeDatabase has returned and, when a dependency
\* is declared, the startup round has returned with every declared URL
\* recorded; main() only moves forward, so it calls initializeDatabase once
\* and the startup round at most once, and round 0 is started by main() alone.
StartupOrdering ==
    /\ [](((\E c \in Cycles : pc[c] # "idle") \/ (\E r \in Rounds \ {0} : rpc[r] # "idle")
              \/ timersStarted \/ depTimer)
            => /\ pc[0] = "m_done"
               /\ last # "none"
               /\ rpc[0] = "idle"
               /\ DOMAIN dependencyHealth = DEPENDENCIES)
    /\ [][/\ (pc'[0] # pc[0]) => MainRank(pc'[0]) > MainRank(pc[0])
          /\ (rpc[0] = "idle" /\ rpc'[0] # "idle") => (pc[0] = "m_deps" /\ DEPENDENCIES # {})
          /\ (pc[0] = "m_deps" /\ DEPENDENCIES # {} /\ pc'[0] # pc[0]) => rpc'[0] = "waiting"]_vars

\* C14 witness: a store cycle and a timer round in flight after a startup
\* with declared dependencies
StartupOrderingWitness ==
    /\ DEPENDENCIES # {}
    /\ \E c \in Cycles : pc[c] # "idle"
    /\ \E r \in Rounds \ {0} : rpc[r] = "waiting"

\* C15: no call of initializeDatabase or pingDatabase ends in an exception:
\* every activation that ends returns "ok" or "failed"; each failure of the
\* secret fetch, the constructor, connect() or the query is caught with
\* isHealthy = false in that step, a failure of end() is swallowed; the
\* timers once started stay registered and the database timer can fire again
\* whenever a callback slot is free.
NoErrorEscapes ==
    /\ [](/\ last \in {"none", "ok", "failed"}
          /\ (timersStarted /\ \E c \in Cycles : pc[c] = "idle")
                => ENABLED (\E c \in Cycles : PingTick(c)))
    /\ [][/\ \A c \in Procs :
                (FetchFail(c) \/ FetchOkCtorFail(c) \/ InitConnectFail(c))
                    => (isHealthy' = FALSE /\ last' = "failed")
          /\ \A c \in Cycles :
                (VConnectFail(c) \/ VQueryFail(c)) => isHealthy' = FALSE
          /\ \A c \in Cycles :
                (pc[c] = "v_end" /\ pc'[c] # "v_end") => (pc'[c] = "idle" /\ last' = "failed")
          /\ timersStarted => (timersStarted' /\ depTimer' = depTimer)]_vars

\* C15 witness: a verification failed, the teardown of its pool settled and
\* every callback has returned, with the timers still registered
NoErrorEscapesWitness ==
    /\ timersStarted
    /\ last = "failed"
    /\ ~isHealthy
    /\ \E p \in PoolIds : pool[p] = "ended"
    /\ \A c \in Cycles : pc[c] = "idle"

\* C16: a GET /health can be answered in every reachable state, also while a
\* store cycle or a dependency round is suspended; the answer is one step
\* that reads isHealthy and dependencyHealth and changes nothing but the
\* response: it starts no probe and no cycle.
ReadsNeverWait ==
    /\ [](ENABLED Health)
    /\ [][Health =>
            /\ UNCHANGED <<storeVars, procVars, envVars, depVars, DEPENDENCIES,
                           timersStarted, depTimer>>
            /\ resp'.code = (IF isHealthy THEN 200 ELSE 503)
            /\ DOMAIN resp'.dependencies = DOMAIN dependencyHealth]_vars

\* C16 witness: a response served in the middle of the startup round (one of
\* two declared URLs recorded) while initializeDatabase had failed
ReadsNeverWaitWitness ==
    /\ Cardinality(DEPENDENCIES) = 2
    /\ rpc[0] = "waiting"
    /\ Cardinality(DOMAIN resp.dependencies) = 1
    /\ resp.code = 503
====
